---------------------------- MODULE Spec2Model ----------------------------
(***************************************************************************)
(* Model of src/app.py (talk-limpiador): the normalization primitives, the *)
(* column classifiers, the field cleaners and the row loop of the          *)
(* "Limpiar y generar archivos" handler.                                   *)
(*                                                                         *)
(* A Python str is a sequence of code points.  A code point is a TLA+      *)
(* string: an ASCII character stands for itself, any other code point is   *)
(* written by name ("TAB" is U+0009, "ZWSP" is U+200B, ...).               *)
(* A cell is a record [na, s]: na is pd.isna(cell), s is str(cell).        *)
(***************************************************************************)
EXTENDS Integers, Sequences, FiniteSets, TLC

VARIABLES
    pc,                 \* position of the harness / handler
    val, flag,          \* one cleaner call: the raw cell and apply_nompropio
    res, diag,          \* its returned string and its diagnostic (<<>> is None)
    scan, extra, tag,   \* one classifier pass over one column (streamed)
    hN, hT, hG,         \* history: non-absent cells seen, testable and passing in the sample
    colname, column,    \* one column handed to detect_country_code_columns
    df, cols,           \* the table: rows of cells, and the header
    apt_col, email_col, max30_cols, apply_proper, truncate_long,
    numeric_cols, country_code_cols,
    df_clean, error_rows, idx,
    trace               \* history: per processed row, what the loop did

cleanerVars == <<val, flag, res, diag>>
scanVars == <<scan, extra, tag, hN, hT, hG>>
ccVars == <<colname, column>>
runVars == <<df, cols, apt_col, email_col, max30_cols, apply_proper, truncate_long,
             numeric_cols, country_code_cols, df_clean, error_rows, idx, trace>>
vars == <<pc, cleanerVars, scanVars, ccVars, runVars>>

-----------------------------------------------------------------------------
(* Code points and their classes, as Python sees them.                     *)

AlphaLower == <<"a","b","c","d","e","f","g","h","i","j","k","l","m",
                "n","o","p","q","r","s","t","u","v","w","x","y","z">>
AlphaUpper == <<"A","B","C","D","E","F","G","H","I","J","K","L","M",
                "N","O","P","Q","R","S","T","U","V","W","X","Y","Z">>
AsciiLower == {AlphaLower[i] : i \in DOMAIN AlphaLower}
AsciiUpper == {AlphaUpper[i] : i \in DOMAIN AlphaUpper}
AsciiLetter == AsciiLower \cup AsciiUpper
AsciiDigit == {"0","1","2","3","4","5","6","7","8","9"}
AsciiAlnum == AsciiLetter \cup AsciiDigit
\* \d of a str pattern: every Unicode decimal digit (ARABIC3 is U+0663)
UnicodeDigit == AsciiDigit \cup {"ARABIC3"}
\* str.isspace() and \s of a str pattern (LSEP is U+2028, NNBSP is U+202F)
PyWhitespace == {" ", "TAB", "LF", "CR", "NBSP", "NNBSP", "LSEP"}
\* INVISIBLE_CHARS_PATTERN: U+FEFF U+200B U+200C U+200D U+2060 U+00AD
InvisibleChars == {"BOM", "ZWSP", "ZWNJ", "ZWJ", "WJ", "SHY"}
\* DISALLOWED_SIGNS: , . - $ % # ( ) /
DisallowedSigns == {",", ".", "-", "$", "%", "#", "(", ")", "/"}
CombiningMarks == {"COMB_ACUTE", "COMB_TILDE"}

IsSpace(ch) == ch \in PyWhitespace

-----------------------------------------------------------------------------
(* Sequence helpers (Python's str operations on code point sequences).     *)

RECURSIVE Flatten(_)
Flatten(ss) == IF ss = <<>> THEN <<>> ELSE Head(ss) \o Flatten(Tail(ss))

RECURSIVE LStrip(_)
LStrip(s) == IF s # <<>> /\ IsSpace(Head(s)) THEN LStrip(Tail(s)) ELSE s

RECURSIVE RStrip(_)
RStrip(s) ==
    IF s # <<>> /\ IsSpace(s[Len(s)]) THEN RStrip(SubSeq(s, 1, Len(s) - 1)) ELSE s

\* str.strip()
Strip(s) == RStrip(LStrip(s))

LowerCh(ch) ==
    IF ch \in AsciiUpper
    THEN AlphaLower[CHOOSE i \in DOMAIN AlphaUpper : AlphaUpper[i] = ch]
    ELSE IF ch = "E_ACUTE" THEN "e_acute" ELSE ch

UpperCh(ch) ==
    IF ch \in AsciiLower
    THEN AlphaUpper[CHOOSE i \in DOMAIN AlphaLower : AlphaLower[i] = ch]
    ELSE IF ch = "e_acute" THEN "E_ACUTE" ELSE ch

CasedChars == AsciiLetter \cup {"e_acute", "E_ACUTE", "n_tilde", "SHARP_S"}
IsCased(ch) == ch \in CasedChars

\* str.lower()
Lower(s) == [i \in DOMAIN s |-> LowerCh(s[i])]

\* a faulty variant of Title: only a character after whitespace (or the first) is upper-cased
TitleTokenInitial(s) ==
    [i \in DOMAIN s |->
            IF i = 1 \/ IsSpace(s[i - 1]) THEN UpperCh(s[i]) ELSE LowerCh(s[i])]

\* str.title(): a cased character is upper-cased unless the one before it is
\* cased, and lower-cased otherwise
Title(s) ==
    [i \in DOMAIN s |->
            IF i > 1 /\ IsCased(s[i - 1]) THEN LowerCh(s[i]) ELSE UpperCh(s[i])]

\* s.count(ch)
Count(s, ch) == Cardinality({i \in DOMAIN s : s[i] = ch})

\* s.split(ch)
RECURSIVE Split(_, _)
Split(s, ch) ==
    IF \A i \in DOMAIN s : s[i] # ch THEN <<s>>
    ELSE LET k == CHOOSE i \in DOMAIN s : s[i] = ch /\ \A j \in 1..(i - 1) : s[j] # ch
         IN  <<SubSeq(s, 1, k - 1)>> \o Split(SubSeq(s, k + 1, Len(s)), ch)

\* needle in s
Contains(s, needle) ==
    \E i \in 0..(Len(s) - Len(needle)) : SubSeq(s, i + 1, i + Len(needle)) = needle

-----------------------------------------------------------------------------
(* Normalization primitives.                                               *)

remove_invisibles(s) ==
    LET spaced == [i \in DOMAIN s |-> IF s[i] \in {"NBSP", "NNBSP"} THEN " " ELSE s[i]]
    IN  SelectSeq(spaced, LAMBDA ch : ch \notin InvisibleChars)

\* unicodedata.normalize("NFKD", ch) for the code points of the model
Decompose(ch) ==
    CASE ch = "e_acute" -> <<"e", "COMB_ACUTE">>
      [] ch = "E_ACUTE" -> <<"E", "COMB_ACUTE">>
      [] ch = "n_tilde" -> <<"n", "COMB_TILDE">>
      [] ch \in {"NBSP", "NNBSP"} -> <<" ">>
      [] OTHER -> <<ch>>

\* the decompositions laid end to end (each has one or two code points; NONE
\* fills the slot a one-point decomposition leaves), combining marks dropped
strip_accents(s) ==
    LET nfkd == [k \in 1..(2 * Len(s)) |->
                   LET piece == Decompose(s[(k + 1) \div 2])
                       j == IF k % 2 = 1 THEN 1 ELSE 2
                   IN  IF j <= Len(piece) THEN piece[j] ELSE "NONE"]
    IN  SelectSeq(nfkd, LAMBDA ch : ch \notin CombiningMarks /\ ch # "NONE")

\* re.sub(r"\s{2,}", " ", s): every run of two or more whitespace characters
\* becomes one " "; a run of one is left as it is.  DROP marks the second and
\* later characters of a run, which the substitution consumes.
collapse_spaces(s) ==
    LET marks == [i \in DOMAIN s |->
                    IF ~IsSpace(s[i]) THEN s[i]
                    ELSE IF i > 1 /\ IsSpace(s[i - 1]) THEN "DROP"
                    ELSE IF i < Len(s) /\ IsSpace(s[i + 1]) THEN " "
                    ELSE s[i]]
    IN  SelectSeq(marks, LAMBDA ch : ch # "DROP")

nompropio_like_excel(s) == Title(Lower(s))

-----------------------------------------------------------------------------
(* Field cleaners.                                                         *)

Absent == [na |-> TRUE, s |-> <<>>]
Text(s) == [na |-> FALSE, s |-> s]

\* lines 169-180 of clean_text_general: the string handed to the proper-case step
TextBeforeCase(v) ==
    IF v.na THEN <<>>
    ELSE LET s1 == Strip(remove_invisibles(v.s))
         IN  IF s1 = <<>> THEN <<>>
             ELSE LET s2 == strip_accents(s1)
                      \* re.sub(f"[{DISALLOWED_SIGNS}]", " ", s)
                      s3 == [i \in DOMAIN s2 |->
                               IF s2[i] \in DisallowedSigns THEN " " ELSE s2[i]]
                      \* re.sub(r"[^A-Za-z0-9\s]", " ", s)
                      s4 == [i \in DOMAIN s3 |->
                               IF s3[i] \in AsciiAlnum \/ IsSpace(s3[i]) THEN s3[i] ELSE " "]
                  IN  Strip(collapse_spaces(s4))

clean_text_general(v, apply_nompropio) ==
    LET s == TextBeforeCase(v)
    IN  IF apply_nompropio /\ s # <<>> THEN nompropio_like_excel(s) ELSE s


\* [0-9\.\+\-]
NumKept == AsciiDigit \cup {".", "+", "-"}

\* a faulty variant of clean_numeric_general: the LAST period is kept as the separator
clean_numeric_keep_last(v) ==
    IF v.na THEN <<>>
    ELSE LET s1 == Strip(remove_invisibles(v.s))
             s2 == SelectSeq(s1, LAMBDA ch : ~IsSpace(ch))
             s3 == [i \in DOMAIN s2 |-> IF s2[i] = "," THEN "." ELSE s2[i]]
             s4 == SelectSeq(s3, LAMBDA ch : ch \in NumKept)
             parts == Split(s4, ".")
             s5 == IF Count(s4, ".") > 1
                   THEN Flatten(SubSeq(parts, 1, Len(parts) - 1)) \o <<".">> \o parts[Len(parts)]
                   ELSE s4
         IN  IF s1 = <<>> \/ s5 \in {<<"+">>, <<"-">>, <<".">>, <<"+", ".">>, <<"-", ".">>}
             THEN <<>> ELSE s5

clean_numeric_general(v) ==
    IF v.na THEN <<>>
    ELSE LET s1 == Strip(remove_invisibles(v.s))
             \* re.sub(r"\s+", "", s)
             s2 == SelectSeq(s1, LAMBDA ch : ~IsSpace(ch))
             s3 == [i \in DOMAIN s2 |-> IF s2[i] = "," THEN "." ELSE s2[i]]
             \* re.sub(r"[^0-9\.\+\-]", "", s)
             s4 == SelectSeq(s3, LAMBDA ch : ch \in NumKept)
             parts == Split(s4, ".")
             s5 == IF Count(s4, ".") > 1
                   THEN parts[1] \o <<".">> \o Flatten(Tail(parts))
                   ELSE s4
         IN  IF s1 = <<>> THEN <<>>
             ELSE IF s5 \in {<<"+">>, <<"-">>, <<".">>, <<"+", ".">>, <<"-", ".">>}
             THEN <<>> ELSE s5

\* a faulty variant of clean_country_code: the '+' is looked for before the whitespace
\* is removed and the value trimmed
clean_country_code_plus_raw(v) ==
    IF v.na THEN <<>>
    ELSE LET s1 == Strip(remove_invisibles(v.s))
             digits == SelectSeq(s1, LAMBDA ch : ch \in UnicodeDigit)
             has_plus == v.s # <<>> /\ Head(v.s) = "+"
         IN  IF s1 = <<>> \/ digits = <<>> THEN <<>>
             ELSE IF has_plus THEN <<"+">> \o digits ELSE digits

clean_country_code(v) ==
    IF v.na THEN <<>>
    ELSE LET s1 == Strip(remove_invisibles(v.s))
             s2 == SelectSeq(s1, LAMBDA ch : ~IsSpace(ch))
             has_plus == s2 # <<>> /\ Head(s2) = "+"
             \* re.sub(r"\D", "", s)
             digits == SelectSeq(s2, LAMBDA ch : ch \in UnicodeDigit)
         IN  IF s1 = <<>> THEN <<>>
             ELSE IF digits = <<>> THEN <<>>
             ELSE IF has_plus THEN <<"+">> \o digits ELSE digits

clean_apto_keep_inner_spaces(v) ==
    IF v.na THEN <<>>
    ELSE LET s1 == Strip(remove_invisibles(v.s))
         IN  IF s1 = <<>> THEN <<>>
             ELSE LET s2 == strip_accents(s1)
                      s3 == SelectSeq(s2, LAMBDA ch : ch \notin DisallowedSigns)
                  IN  SelectSeq(s3, LAMBDA ch : ch \in AsciiAlnum \/ IsSpace(ch))

\* EMAIL_RE.match(s): ^[A-Za-z0-9._%+\-]+@[A-Za-z0-9.\-]+\.[A-Za-z]{2,}$
\* (s never ends in a line feed here, so $ is the end of s)
EmailLocalChars == AsciiAlnum \cup {".", "_", "%", "+", "-"}
EmailDomainChars == AsciiAlnum \cup {".", "-"}
EMAIL_RE(s) ==
    \E a \in DOMAIN s :
      /\ s[a] = "@"
      /\ \E d \in DOMAIN s :
        /\ s[d] = "."
        /\ 1 < a /\ a + 1 < d /\ d + 2 <= Len(s)
        /\ \A i \in 1..(a - 1) : s[i] \in EmailLocalChars
        /\ \A i \in (a + 1)..(d - 1) : s[i] \in EmailDomainChars
        /\ \A i \in (d + 1)..Len(s) : s[i] \in AsciiLetter

MsgEmpty == <<"Correo vacio">>
MsgSeparators == <<"Mas de un correo o separadores detectados">>
MsgInvalid == <<"Correo invalido">>
EmailSeparators == {";", ",", "/", "|"}

\* returns the pair (email, diagnostic); <<>> as diagnostic is None
clean_email_one(v) ==
    IF v.na \/ Strip(v.s) = <<>> THEN <<<<>>, MsgEmpty>>
    ELSE LET raw == Strip(remove_invisibles(v.s))
             email == SelectSeq(raw, LAMBDA ch : ch # " ")
         IN  IF \E i \in DOMAIN raw : raw[i] \in EmailSeparators
             THEN <<<<>>, MsgSeparators>>
             ELSE IF ~EMAIL_RE(email) THEN <<<<>>, MsgInvalid>>
             ELSE <<Lower(email), <<>>>>

\* str(n) of a natural number
RECURSIVE Digits(_)
Digits(n) ==
    LET d == <<"0", "1", "2", "3", "4", "5", "6", "7", "8", "9">>
    IN  IF n < 10 THEN <<d[n + 1]>> ELSE Digits(n \div 10) \o <<d[(n % 10) + 1]>>

\* a faulty variant of validate_len: a value of exactly max_len is reported too
validate_len_inclusive(s, max_len) ==
    IF Len(s) >= max_len
    THEN <<"Supera ">> \o Digits(max_len) \o <<" caracteres (tiene ">>
         \o Digits(Len(s)) \o <<")">>
    ELSE <<>>

\* f"Supera {max_len} caracteres (tiene {len(s)})"; <<>> is None
validate_len(s, max_len) ==
    IF Len(s) > max_len
    THEN <<"Supera ">> \o Digits(max_len) \o <<" caracteres (tiene ">>
         \o Digits(Len(s)) \o <<")">>
    ELSE <<>>

-----------------------------------------------------------------------------
(* Column classifiers.  A pass over a column is a fold of one step per     *)
(* cell over the record [taken, total, good]: taken counts the non-absent  *)
(* cells that entered the sample (series.head(sample_size)).               *)

sample_size == 80

\* NUM_LIKE_RE.match(s): ^[\s\+\-]?[0-9\s\.,\*%$#()\/-]+$
NumBodyChars == AsciiDigit \cup PyWhitespace
                \cup {".", ",", "*", "%", "$", "#", "(", ")", "/", "-"}
NUM_LIKE_RE(s) ==
    \/ s # <<>> /\ \A i \in DOMAIN s : s[i] \in NumBodyChars
    \/ /\ Len(s) >= 2
       /\ s[1] \in PyWhitespace \cup {"+", "-"}
       /\ \A i \in 2..Len(s) : s[i] \in NumBodyChars

is_numeric_like_value(v) ==
    IF v.na THEN FALSE
    ELSE LET s == Strip(remove_invisibles(v.s))
         IN  s # <<>> /\ NUM_LIKE_RE(s)

\* re.fullmatch(r"\+?\d{1,4}", s)
CountryCodeRe(s) ==
    LET d == IF s # <<>> /\ Head(s) = "+" THEN Tail(s) ELSE s
    IN  Len(d) \in 1..4 /\ \A i \in DOMAIN d : d[i] \in UnicodeDigit

looks_like_country_code_value(v) ==
    IF v.na THEN FALSE
    ELSE LET s == Strip(remove_invisibles(v.s))
         IN  /\ s # <<>>
             /\ \/ CountryCodeRe(s)
                \/ CountryCodeRe(SelectSeq(s, LAMBDA ch : ~IsSpace(ch)))

ScanStart == [taken |-> 0, total |-> 0, good |-> 0]

\* the test each classifier applies to a sampled value
Passes(kind, v) ==
    IF kind = "numeric" THEN is_numeric_like_value(v) ELSE looks_like_country_code_value(v)

\* one cell of the column: dropna(), head(sample_size), then the loop body
ScanStep(st, v, kind) ==
    IF v.na \/ st.taken >= sample_size THEN st
    ELSE LET w == Strip(v.s)
         IN  IF w = <<>> THEN [st EXCEPT !.taken = @ + 1]
             ELSE [taken |-> st.taken + 1,
                   total |-> st.total + 1,
                   good |-> IF Passes(kind, Text(w)) THEN st.good + 1 ELSE st.good]

RECURSIVE ScanColumn(_, _, _)
ScanColumn(st, col, kind) ==
    IF col = <<>> THEN st ELSE ScanColumn(ScanStep(st, Head(col), kind), Tail(col), kind)

\* a faulty variant of NumericDecide: the threshold must be exceeded
NumericDecideStrict(st) == st.total > 0 /\ 100 * st.good > 85 * st.total

\* total > 0 and (good / total) >= 0.85; the double quotient compares with the
\* double 0.85 as the fractions do for every total the sample allows
NumericDecide(st) == st.total > 0 /\ 100 * st.good >= 85 * st.total

NameKeywords ==
    { <<"i","n","d","i","c","a","t","i","v","o">>,
      <<"c","o","d","i","g","o"," ","p","a","i","s">>,
      <<"c","o_acute","d","i","g","o"," ","p","a","i","s">>,
      <<"p","a","i","s">>,
      <<"c","o","u","n","t","r","y"," ","c","o","d","e">>,
      <<"c","o_acute","d","i","g","o"," ","p","a","i_acute","s">> }

NameHit(c) == LET name == Lower(Strip(c)) IN \E k \in NameKeywords : Contains(name, k)

ValueHit(st) == st.total > 0 /\ 4 * st.good >= 3 * st.total

\* the body of the loop of detect_country_code_columns for column c with cells col
CountryCodeColumn(c, col) ==
    LET st == ScanColumn(ScanStart, col, "country")
    IN  IF \A i \in DOMAIN col : col[i].na THEN FALSE    \* series.empty: continue
        ELSE NameHit(c) \/ ValueHit(st)

NumericColumn(col) == NumericDecide(ScanColumn(ScanStart, col, "numeric"))

-----------------------------------------------------------------------------
(* Inputs and the parts of the state a specification leaves alone.         *)

Strings(A, n) == UNION {[1..k -> A] : k \in 0..n}
Cells(A, n) == {Absent} \cup {Text(s) : s \in Strings(A, n)}
Repeat(ch, n) == [i \in 1..n |-> ch]
Min(a, b) == IF a < b THEN a ELSE b

CleanerIdle == val = Absent /\ flag = FALSE /\ res = <<>> /\ diag = <<>>
ScanIdle == scan = ScanStart /\ extra = 0 /\ tag = FALSE /\ hN = 0 /\ hT = 0 /\ hG = 0
CcIdle == colname = <<>> /\ column = <<>>
RunIdle ==
    /\ df = <<>> /\ cols = <<>> /\ apt_col = <<>> /\ email_col = <<>>
    /\ max30_cols = <<>> /\ apply_proper = FALSE /\ truncate_long = FALSE
    /\ numeric_cols = {} /\ country_code_cols = {}
    /\ df_clean = <<>> /\ error_rows = <<>> /\ idx = 0 /\ trace = <<>>

-----------------------------------------------------------------------------
(* clean_text_general on one cell.                                         *)

MaxTextLen == 4
TextAlphabet == {"a", "B", "1", " ", "TAB", "-", "e_acute", "ZWSP"}

InitText ==
    /\ pc = "call"
    /\ val \in Cells(TextAlphabet, MaxTextLen)
    /\ flag \in BOOLEAN
    /\ res = <<>> /\ diag = <<>>
    /\ ScanIdle /\ CcIdle /\ RunIdle

CallText ==
    /\ pc = "call"
    /\ res' = clean_text_general(val, flag)
    /\ pc' = "done"
    /\ UNCHANGED <<val, flag, diag, scanVars, ccVars, runVars>>

SpecText == InitText /\ [][CallText]_vars

\* C4: the output of clean_text_general holds only ASCII letters, ASCII digits
\* and the ASCII space, has no space at either end and no two adjacent spaces.
C4_TextOutputClean ==
    pc = "done" =>
        /\ \A i \in DOMAIN res : res[i] \in AsciiAlnum \cup {" "}
        /\ res # <<>> => res[1] # " " /\ res[Len(res)] # " "
        /\ \A i \in 1..(Len(res) - 1) : ~(res[i] = " " /\ res[i + 1] = " ")

\* C10 as stated: after proper-casing, the first character of every
\* whitespace-delimited token is upper-cased and every other letter is
\* lower-case, also a letter that follows a digit inside a token.
C10_TokenInitialOnly ==
    pc = "done" /\ flag =>
        LET pre == TextBeforeCase(val)
        IN  /\ Len(res) = Len(pre)
            /\ \A i \in DOMAIN pre :
                 IF pre[i] \in AsciiLetter
                 THEN IF i = 1 \/ IsSpace(pre[i - 1])
                      THEN res[i] \in AsciiUpper /\ LowerCh(res[i]) = LowerCh(pre[i])
                      ELSE res[i] \in AsciiLower /\ res[i] = LowerCh(pre[i])
                 ELSE res[i] = pre[i]

\* C10 amended: after proper-casing, a letter is upper-case exactly when it is
\* the first character or follows a non-letter (whitespace or a digit), and
\* lower-case otherwise; characters that are not letters are unchanged.
C10_LetterRunInitial ==
    pc = "done" /\ flag =>
        LET pre == TextBeforeCase(val)
        IN  /\ Len(res) = Len(pre)
            /\ \A i \in DOMAIN pre :
                 IF pre[i] \in AsciiLetter
                 THEN IF i = 1 \/ pre[i - 1] \notin AsciiLetter
                      THEN res[i] \in AsciiUpper /\ LowerCh(res[i]) = LowerCh(pre[i])
                      ELSE res[i] \in AsciiLower /\ res[i] = LowerCh(pre[i])
                 ELSE res[i] = pre[i] /\ res[i] \in AsciiDigit \cup PyWhitespace

\* a letter right after a digit, inside one token, came out upper-case
C10_Witness ==
    /\ pc = "done" /\ flag
    /\ \E i \in 2..Len(res) :
         /\ res[i] \in AsciiUpper /\ res[i - 1] \in AsciiDigit
         /\ TextBeforeCase(val)[i] \in AsciiLower

-----------------------------------------------------------------------------
(* clean_numeric_general on one cell.                                      *)

MaxNumLen == 4
NumAlphabet == {"1", "2", ".", ",", "+", "-", " ", "*", "ZWSP"}
\* the docstring's ' 3 ,45* ' and the value "1.234.567"
NumExampleA == <<" ", "3", " ", ",", "4", "5", "*", " ">>
NumExampleB == <<"1", ".", "2", "3", "4", ".", "5", "6", "7">>

InitNumeric ==
    /\ pc = "call"
    /\ val \in Cells(NumAlphabet, MaxNumLen) \cup {Text(NumExampleA), Text(NumExampleB)}
    /\ flag = FALSE /\ res = <<>> /\ diag = <<>>
    /\ ScanIdle /\ CcIdle /\ RunIdle

CallNumeric ==
    /\ pc = "call"
    /\ res' = clean_numeric_general(val)
    /\ pc' = "done"
    /\ UNCHANGED <<val, flag, diag, scanVars, ccVars, runVars>>

SpecNumeric == InitNumeric /\ [][CallNumeric]_vars

\* the pipeline as the claim words it: up to the first period, then the rest
\* with its periods dropped
NumericAsClaimed(s) ==
    LET a == SelectSeq(Strip(remove_invisibles(s)), LAMBDA ch : ch \notin PyWhitespace)
        b == [i \in DOMAIN a |-> IF a[i] = "," THEN "." ELSE a[i]]
        c == SelectSeq(b, LAMBDA ch : ch \in NumKept)
        dots == {i \in DOMAIN c : c[i] = "."}
        first == CHOOSE i \in dots : \A j \in dots : i <= j
        d == IF Cardinality(dots) > 1
             THEN SubSeq(c, 1, first)
                  \o SelectSeq(SubSeq(c, first + 1, Len(c)), LAMBDA ch : ch # ".")
             ELSE c
    IN  IF d \in {<<"+">>, <<"-">>, <<".">>, <<"+", ".">>, <<"-", ".">>} THEN <<>> ELSE d

\* C5: for a non-absent input clean_numeric_general returns the pipeline's
\* result (only the first period kept, the degenerate strings emptied); the
\* output has at most one period and only digits, '.', '+', '-';
\* "1.234.567" gives "1.234567".
C5_NumericPipeline ==
    pc = "done" /\ ~val.na =>
        /\ res = NumericAsClaimed(val.s)
        /\ Count(res, ".") <= 1
        /\ \A i \in DOMAIN res : res[i] \in NumKept
        /\ val.s = NumExampleB => res = <<"1", ".", "2", "3", "4", "5", "6", "7">>

\* a value with several periods was cleaned
C5_Witness ==
    /\ pc = "done" /\ ~val.na
    /\ Count(val.s, ".") + Count(val.s, ",") > 1
    /\ Count(res, ".") = 1 /\ Len(res) >= 3

-----------------------------------------------------------------------------
(* clean_country_code on one cell.                                         *)

MaxCodeLen == 4
CodeAlphabet == {"+", "0", "5", " ", "a", "ZWSP", "NBSP", "ARABIC3"}

InitCountry ==
    /\ pc = "call"
    /\ val \in Cells(CodeAlphabet, MaxCodeLen)
    /\ flag = FALSE /\ res = <<>> /\ diag = <<>>
    /\ ScanIdle /\ CcIdle /\ RunIdle

CallCountry ==
    /\ pc = "call"
    /\ res' = clean_country_code(val)
    /\ pc' = "done"
    /\ UNCHANGED <<val, flag, diag, scanVars, ccVars, runVars>>

SpecCountry == InitCountry /\ [][CallCountry]_vars

\* the value after invisible-stripping, trimming and whitespace removal
CodeNormalized(s) ==
    SelectSeq(Strip(remove_invisibles(s)), LAMBDA ch : ch \notin PyWhitespace)

\* C6: clean_country_code returns "" when the value has no digit, and otherwise
\* the input's digits in order, with one leading '+' exactly when the
\* normalized value started with '+'.
C6_CountryCode ==
    pc = "done" =>
        LET digits == SelectSeq(val.s, LAMBDA ch : ch \in UnicodeDigit)
            plus == CodeNormalized(val.s) # <<>> /\ CodeNormalized(val.s)[1] = "+"
        IN  IF val.na \/ digits = <<>> THEN res = <<>>
            ELSE IF plus THEN res = <<"+">> \o digits
            ELSE res = digits /\ res[1] # "+"

\* a '+' behind leading whitespace and before a leading zero was kept
C6_Witness ==
    /\ pc = "done" /\ ~val.na
    /\ val.s # <<>> /\ val.s[1] \in PyWhitespace
    /\ Len(res) >= 3 /\ res[1] = "+" /\ res[2] = "0"

-----------------------------------------------------------------------------
(* clean_email_one on one cell.                                            *)

MaxEmailLen == 6
EmailAlphabet == {"a", "B", "@", ".", ";", " ", "ZWSP"}

InitEmail ==
    /\ pc = "call"
    /\ val \in Cells(EmailAlphabet, MaxEmailLen)
    /\ flag = FALSE /\ res = <<>> /\ diag = <<>>
    /\ ScanIdle /\ CcIdle /\ RunIdle

CallEmail ==
    /\ pc = "call"
    /\ res' = clean_email_one(val)[1]
    /\ diag' = clean_email_one(val)[2]
    /\ pc' = "done"
    /\ UNCHANGED <<val, flag, scanVars, ccVars, runVars>>

SpecEmail == InitEmail /\ [][CallEmail]_vars

\* C7: clean_email_one gives, in this order: "empty email" for an absent input
\* or one blank after invisible-stripping and trimming; "separators" for one
\* holding ; , / or |; "invalid" for one not of the shape local@domain.tld;
\* otherwise the lower-cased email and no diagnostic.
C7_EmailOutcome ==
    pc = "done" =>
        LET raw == Strip(remove_invisibles(val.s))
            compact == SelectSeq(raw, LAMBDA ch : ch # " ")
        IN  IF val.na \/ raw = <<>> THEN res = <<>> /\ diag = MsgEmpty
            ELSE IF \E i \in DOMAIN raw : raw[i] \in EmailSeparators
                 THEN res = <<>> /\ diag = MsgSeparators
            ELSE IF ~EMAIL_RE(compact) THEN res = <<>> /\ diag = MsgInvalid
            ELSE res = Lower(compact) /\ diag = <<>>

-----------------------------------------------------------------------------
(* detect_numeric_columns on one column, the cells arriving one at a time. *)
(* A cell past the sample changes nothing; MaxExtra bounds how many of     *)
(* them are counted.                                                       *)

MaxExtra == 1
ScanCellValues ==
    { Absent,
      Text(<<" ", " ">>),              \* blank
      Text(<<"1", ",", "5">>),         \* numeric-like
      Text(<<"-", "3", " ", "*">>),    \* numeric-like, with noise
      Text(<<"a", "1">>),              \* not numeric-like
      Text(<<"ZWSP">>) }               \* not blank for strip(), never numeric-like

InitScan ==
    /\ pc = "scan"
    /\ scan = ScanStart /\ extra = 0 /\ tag = FALSE
    /\ hN = 0 /\ hT = 0 /\ hG = 0
    /\ CleanerIdle /\ CcIdle /\ RunIdle

\* the next cell of the column (lines 77-89 for that cell)
ReadCell ==
    /\ pc = "scan"
    /\ \E v \in ScanCellValues :
         /\ v.na \/ hN < sample_size + MaxExtra
         /\ scan' = ScanStep(scan, v, "numeric")
         /\ extra' = IF ~v.na /\ scan.taken >= sample_size THEN extra + 1 ELSE extra
         /\ hN' = IF v.na THEN hN ELSE hN + 1
         /\ hT' = IF ~v.na /\ hN < sample_size /\ Strip(v.s) # <<>> THEN hT + 1 ELSE hT
         /\ hG' = IF ~v.na /\ hN < sample_size /\ Strip(v.s) # <<>>
                     /\ is_numeric_like_value(v)
                  THEN hG + 1 ELSE hG
    /\ UNCHANGED <<pc, tag, cleanerVars, ccVars, runVars>>

\* the end of the column (lines 90-91)
EndColumn ==
    /\ pc = "scan"
    /\ tag' = NumericDecide(scan)
    /\ pc' = "done"
    /\ UNCHANGED <<scan, extra, hN, hT, hG, cleanerVars, ccVars, runVars>>

NextScan == ReadCell \/ EndColumn
SpecScan == InitScan /\ [][NextScan]_vars

\* C9: a column is tagged Numeric exactly when, among its first 80 non-absent
\* values, the number T of non-blank ones is positive and the number G of
\* numeric-like ones has 100*G >= 85*T; 84% is not tagged, T = 0 never is.
C9_NumericThreshold ==
    pc = "done" =>
        /\ tag <=> (hT > 0 /\ 100 * hG >= 85 * hT)
        /\ hT = 0 => ~tag
        /\ 100 * hG = 84 * hT => ~tag

\* a column at exactly 85% of a full sample, with values past the sample, is tagged
C9_Witness ==
    /\ pc = "done" /\ tag
    /\ hN > sample_size /\ hT = sample_size /\ 100 * hG = 85 * hT

\* a column at exactly 84% is left untagged
C9_Witness84 ==
    pc = "done" /\ ~tag /\ hT > 0 /\ 100 * hG = 84 * hT

-----------------------------------------------------------------------------
(* detect_country_code_columns on one column.                              *)

MaxColLen == 4
ColumnNames ==
    { <<" ", "P", "a", "i", "s">>,
      <<"t", "e", "l">>,
      <<"C", "o", "d", "i", "g", "o">> }
CcCellValues ==
    { Absent,
      Text(<<" ">>),
      Text(<<"+", "5", "7">>),
      Text(<<"a", "b">>) }

InitCc ==
    /\ pc = "call"
    /\ colname \in ColumnNames
    /\ column \in Strings(CcCellValues, MaxColLen)
    /\ tag = FALSE
    /\ scan = ScanStart /\ extra = 0 /\ hN = 0 /\ hT = 0 /\ hG = 0
    /\ CleanerIdle /\ RunIdle

CallDetectCc ==
    /\ pc = "call"
    /\ tag' = CountryCodeColumn(colname, column)
    /\ pc' = "done"
    /\ UNCHANGED <<scan, extra, hN, hT, hG, cleanerVars, ccVars, runVars>>

SpecCc == InitCc /\ [][CallDetectCc]_vars

\* the sampled values that are not blank, and those that look like a country code
CcTested(col) ==
    LET present == SelectSeq(col, LAMBDA v : ~v.na)
        sample == SubSeq(present, 1, Min(sample_size, Len(present)))
    IN  SelectSeq(sample, LAMBDA v : Strip(v.s) # <<>>)
CcPassing(col) == SelectSeq(CcTested(col), looks_like_country_code_value)

\* C8: a column is tagged CountryCode exactly when its name holds a keyword or
\* at least 75% of its sampled non-blank values look like a country code; a
\* keyword in the name tags it whatever its values are, also with none at all.
C8_NameOrValues ==
    pc = "done" =>
        (tag <=> \/ NameHit(colname)
                 \/ /\ Len(CcTested(column)) > 0
                    /\ 4 * Len(CcPassing(column)) >= 3 * Len(CcTested(column)))

-----------------------------------------------------------------------------
(* The "Limpiar y generar archivos" handler over a whole table.            *)

MaxRows == 2
LenCap == 30

Ninguna == <<"(", "N", "i", "n", "g", "u", "n", "a", ")">>
NamePais == <<"P", "a", "i", "s">>
NameTel == <<"t", "e", "l">>
NameDato == <<"d", "a", "t", "o">>
Headers == {<<NamePais, NameDato>>, <<NameTel, NameDato>>}

CellCode == Text(<<"+", "5", "7">>)
CellNum == Text(<<"1", ",", "5", "*">>)
CellMix == Text(<<"+", "1", "-", "a", "@", "B", ".", "c", "d">>)
CellLong == Text(<<"+">> \o Repeat("1", LenCap + 1) \o <<"@", "1", ".", "c", "d">>)
CellLongNum == Text(Repeat("1", LenCap + 2))
CellAtCap == Text(Repeat("a", LenCap))
RowSet ==
    { <<CellCode, CellMix>>,
      <<CellNum, CellLong>>,
      <<CellLongNum, Absent>>,
      <<CellLong, CellAtCap>> }

ColIndex(c) == CHOOSE j \in DOMAIN cols : cols[j] = c
ColumnOf(table, j) == [r \in DOMAIN table |-> table[r][j]]

\* the values st.multiselect can return: each column at most once
Selections(hdr) ==
    {s \in Strings({hdr[j] : j \in DOMAIN hdr}, Len(hdr)) :
        \A a, b \in DOMAIN s : a # b => s[a] # s[b]}

InitRun ==
    /\ pc = "ready"
    /\ cols \in Headers
    /\ df \in Strings(RowSet, MaxRows)
    /\ apt_col \in {Ninguna} \cup {cols[j] : j \in DOMAIN cols}
    /\ email_col \in {Ninguna} \cup {cols[j] : j \in DOMAIN cols}
    /\ max30_cols \in Selections(cols)
    /\ apply_proper \in BOOLEAN
    /\ truncate_long \in BOOLEAN
    /\ numeric_cols = {} /\ country_code_cols = {}
    /\ df_clean = <<>> /\ error_rows = <<>> /\ idx = 0 /\ trace = <<>>
    /\ CleanerIdle /\ ScanIdle /\ CcIdle

detect_numeric_columns ==
    {cols[j] : j \in {k \in DOMAIN cols : NumericColumn(ColumnOf(df, k))}}

detect_country_code_columns ==
    {cols[j] : j \in {k \in DOMAIN cols : CountryCodeColumn(cols[k], ColumnOf(df, k))}}

\* the button is pressed: both classifiers run once, df is copied
StartRun ==
    /\ pc = "ready"
    /\ numeric_cols' = detect_numeric_columns
    /\ country_code_cols' = detect_country_code_columns
    /\ df_clean' = df
    /\ error_rows' = <<>>
    /\ idx' = 0
    /\ pc' = "rows"
    /\ UNCHANGED <<df, cols, apt_col, email_col, max30_cols, apply_proper,
                   truncate_long, trace, cleanerVars, scanVars, ccVars>>

\* a faulty variant of CleanerFor: the numeric set is consulted first
CleanerForNumericFirst(c) ==
    IF c \in numeric_cols THEN "numeric"
    ELSE IF c \in country_code_cols THEN "country"
    ELSE IF apt_col # Ninguna /\ c = apt_col THEN "apto"
    ELSE IF email_col # Ninguna /\ c = email_col THEN "email"
    ELSE "text"

\* the if / continue chain of lines 319-342
CleanerFor(c) ==
    IF c \in country_code_cols THEN "country"
    ELSE IF apt_col # Ninguna /\ c = apt_col THEN "apto"
    ELSE IF email_col # Ninguna /\ c = email_col THEN "email"
    ELSE IF c \in numeric_cols THEN "numeric"
    ELSE "text"

\* the cleaned value and the diagnostic (<<>> is none) of one cell
CleanCell(c, raw_val) ==
    CASE CleanerFor(c) = "country" -> <<clean_country_code(raw_val), <<>>>>
      [] CleanerFor(c) = "apto" -> <<clean_apto_keep_inner_spaces(raw_val), <<>>>>
      [] CleanerFor(c) = "email" -> clean_email_one(raw_val)
      [] CleanerFor(c) = "numeric" -> <<clean_numeric_general(raw_val), <<>>>>
      [] OTHER -> <<clean_text_general(raw_val, apply_proper), <<>>>>

\* f"{c}: {e}"
ErrEntry(c, e) == c \o <<": ">> \o e

\* " | ".join(row_errs)
RECURSIVE JoinErrs(_)
JoinErrs(errs) ==
    IF errs = <<>> THEN <<>>
    ELSE IF Len(errs) = 1 THEN errs[1]
    ELSE errs[1] \o <<" | ">> \o JoinErrs(Tail(errs))

\* lines 345-351: the length cap over the selected columns, in their order
RECURSIVE CapColumns(_, _, _)
CapColumns(row, errs, sel) ==
    IF sel = <<>> THEN [row |-> row, errs |-> errs]
    ELSE LET c == Head(sel)
             s == row[ColIndex(c)]
             len_err == validate_len(s, LenCap)
         IN  IF len_err = <<>> THEN CapColumns(row, errs, Tail(sel))
             ELSE CapColumns(
                    IF truncate_long
                    THEN [row EXCEPT ![ColIndex(c)] = SubSeq(s, 1, Min(LenCap, Len(s)))]
                    ELSE row,
                    Append(errs, ErrEntry(c, len_err)),
                    Tail(sel))

\* a faulty variant of RowOrigin: the header row is not counted
RowOriginNoHeader(i) == i + 1

\* idx + 2: the header is row 1, the data start at row 2
RowOrigin(i) == i + 2

\* one iteration of the loop over df.iterrows(): row idx (labels start at 0)
ProcessRow ==
    /\ pc = "rows"
    /\ idx < Len(df)
    /\ LET row == df[idx + 1]
           cells == [j \in DOMAIN cols |-> CleanCell(cols[j], row[j])]
           cleaned == [j \in DOMAIN cols |-> cells[j][1]]
           diags == [j \in DOMAIN cols |->
                       IF cells[j][2] = <<>> THEN <<>>
                       ELSE <<ErrEntry(cols[j], cells[j][2])>>]
           capped == CapColumns(cleaned, Flatten(diags), max30_cols)
       IN  /\ df_clean' = [df_clean EXCEPT ![idx + 1] = capped.row]
           /\ error_rows' =
                IF capped.errs # <<>>
                THEN Append(error_rows, [fila_origen |-> RowOrigin(idx),
                                         errores |-> JoinErrs(capped.errs)])
                ELSE error_rows
           /\ trace' = Append(trace,
                [applied |-> [j \in DOMAIN cols |-> <<CleanerFor(cols[j])>>],
                 cleaned |-> cleaned,
                 row_errs |-> capped.errs])
    /\ idx' = idx + 1
    /\ UNCHANGED <<pc, df, cols, apt_col, email_col, max30_cols, apply_proper,
                   truncate_long, numeric_cols, country_code_cols,
                   cleanerVars, scanVars, ccVars>>

\* the loop is over: err_df = pd.DataFrame(error_rows)
FinishRun ==
    /\ pc = "rows"
    /\ idx = Len(df)
    /\ pc' = "done"
    /\ UNCHANGED <<runVars, cleanerVars, scanVars, ccVars>>

NextRun == StartRun \/ ProcessRow \/ FinishRun
Spec == InitRun /\ [][NextRun]_vars

\* the cleaner the precedence of the claim gives column c
ClaimedCleaner(c) ==
    CASE c \in country_code_cols -> "country"
      [] c \notin country_code_cols /\ c = apt_col -> "apto"
      [] c \notin country_code_cols /\ c # apt_col /\ c = email_col -> "email"
      [] c \notin country_code_cols /\ c # apt_col /\ c # email_col
           /\ c \in numeric_cols -> "numeric"
      [] OTHER -> "text"

ClaimedValue(c, raw_val) ==
    CASE ClaimedCleaner(c) = "country" -> clean_country_code(raw_val)
      [] ClaimedCleaner(c) = "apto" -> clean_apto_keep_inner_spaces(raw_val)
      [] ClaimedCleaner(c) = "email" -> clean_email_one(raw_val)[1]
      [] ClaimedCleaner(c) = "numeric" -> clean_numeric_general(raw_val)
      [] OTHER -> clean_text_general(raw_val, apply_proper)

\* C1: every cell of every row gets exactly one cleaner, chosen by the
\* precedence CountryCode > Apartment > Email > Numeric > GenericText, and the
\* cell's cleaned value is that cleaner's output.
C1_CleanerPrecedence ==
    /\ \A k \in DOMAIN trace : \A j \in DOMAIN cols :
         trace[k].applied[j] = <<ClaimedCleaner(cols[j])>>
    /\ pc = "done" =>
         \A k \in DOMAIN trace : \A j \in DOMAIN cols :
            trace[k].cleaned[j] = ClaimedValue(cols[j], df[k][j])

\* a column in the country-code set that is also the Apartment column, the
\* Email column and numeric was cleaned as a country code
C1_Witness ==
    /\ pc = "done" /\ Len(trace) >= 1
    /\ \E j \in DOMAIN cols :
         /\ cols[j] \in country_code_cols \cap numeric_cols
         /\ cols[j] = apt_col /\ cols[j] = email_col
         /\ trace[1].applied[j] = <<"country">>
         /\ trace[1].cleaned[j] = <<"+", "5", "7">>

\* the rows, in order, that accumulated a diagnostic
RECURSIVE RowsWithErrors(_)
RowsWithErrors(k) ==
    IF k = 0 THEN <<>>
    ELSE RowsWithErrors(k - 1) \o (IF trace[k].row_errs # <<>> THEN <<k>> ELSE <<>>)

\* diagnostics joined by " | "
Joined(errs) ==
    Flatten([i \in DOMAIN errs |-> IF i = 1 THEN errs[i] ELSE <<" | ">> \o errs[i]])

\* C2: the error report has one record per row that accumulated a diagnostic
\* and none for another row, in row order; the record of the k-th data row
\* has fila_origen = k + 1 and errores = its diagnostics joined by " | ".
C2_ErrorReport ==
    LET bad == RowsWithErrors(Len(trace))
    IN  /\ Len(error_rows) = Len(bad)
        /\ \A i \in DOMAIN error_rows :
             /\ error_rows[i].fila_origen = bad[i] + 1
             /\ error_rows[i].errores = Joined(trace[bad[i]].row_errs)
             /\ \A n \in DOMAIN trace[bad[i]].row_errs :
                  \E j \in DOMAIN cols :
                     SubSeq(trace[bad[i]].row_errs[n], 1, Len(cols[j]) + 1)
                        = cols[j] \o <<": ">>
        /\ Len(trace) >= 1 /\ trace[1].row_errs # <<>> => error_rows[1].fila_origen = 2

\* the first row has no diagnostic and the second has two: one record, for row 3
C2_Witness ==
    /\ pc = "done" /\ Len(trace) = 2
    /\ trace[1].row_errs = <<>> /\ Len(trace[2].row_errs) = 2
    /\ Len(error_rows) = 1 /\ error_rows[1].fila_origen = 3

\* the length diagnostic of column c for a value of M characters
LengthEntry(c, M) ==
    c \o <<": ", "Supera ", "3", "0", " caracteres (tiene ">> \o Digits(M) \o <<")">>

IsLengthEntry(c, e) ==
    Len(e) > Len(c) + 2 /\ SubSeq(e, 1, Len(c) + 2) = c \o <<": ", "Supera ">>

\* C3: for a length-constrained column whose cleaned value has M characters:
\* if M > 30 the row's errors record the cap 30 and M, and the value is kept
\* (truncate off) or cut to its first 30 characters (truncate on); if M <= 30
\* the value is unchanged and there is no length diagnostic.
C3_LengthCap ==
    \A k \in DOMAIN trace : \A j \in DOMAIN cols :
        LET c == cols[j]
            s == trace[k].cleaned[j]
            errs == trace[k].row_errs
            out == df_clean[k][j]
        IN  (\E a \in DOMAIN max30_cols : max30_cols[a] = c) =>
               IF Len(s) > 30
               THEN /\ \E i \in DOMAIN errs : errs[i] = LengthEntry(c, Len(s))
                    /\ truncate_long => out = SubSeq(s, 1, 30)
                    /\ ~truncate_long => out = s
               ELSE /\ out = s
                    /\ \A i \in DOMAIN errs : ~IsLengthEntry(c, errs[i])

\* a value the Numeric cleaner produced was cut to 30 characters, and the
\* diagnostic still reports its 32
C3_Witness ==
    /\ pc = "done" /\ truncate_long /\ Len(trace) >= 1
    /\ \E k \in DOMAIN trace : \E j \in DOMAIN cols :
         /\ trace[k].applied[j] = <<"numeric">>
         /\ Len(trace[k].cleaned[j]) = 32 /\ Len(df_clean[k][j]) = 30
         /\ \E i \in DOMAIN trace[k].row_errs :
              trace[k].row_errs[i] = LengthEntry(cols[j], 32)

\* a value of exactly 30 characters in a length-constrained column
C3_WitnessAtCap ==
    /\ pc = "done"
    /\ \E k \in DOMAIN trace : \E j \in DOMAIN cols :
         /\ \E a \in DOMAIN max30_cols : max30_cols[a] = cols[j]
         /\ Len(trace[k].cleaned[j]) = 30 /\ trace[k].row_errs = <<>>

=============================================================================
